---- MODULE Spec2Model ----
(***************************************************************************)
(* The Go ticket grabber: main's signal handling, TicketGrabber.Start and  *)
(* the steps it sequences (login, navigateToConcert, monitorTickets,       *)
(* checkTicketAvailability, purchaseTicket, selectSeats, confirmPurchase,  *)
(* handlePayment) over the Browser page driver.                            *)
(*                                                                         *)
(* One run is one goroutine; the other processes are the signal-handling   *)
(* goroutine of main and the ticker of monitorTickets.  What the remote    *)
(* page answers to a query or a click is the environment's choice.  Strings*)
(* that the code builds (selectors, the script of ElementExists) are       *)
(* sequences of pieces in which the single quote is a piece of its own.    *)
(***************************************************************************)
EXTENDS Integers, Sequences, FiniteSets, TLC

VARIABLES
    site,        \* config.Ticketing.DefaultSite
    prefs,       \* concert.PreferredSeats
    pc,          \* where the run goroutine is
    idx,         \* the index of the loop the run is in (0 outside loops)
    sig,         \* "none" | "pending" (in sigChan) | "cancelled" (cancel() called)
    tick,        \* a tick is buffered in ticker.C
    available,   \* the local `available` of the current loop iteration
    outcome,     \* how Start returned ("None" while it runs)
    attempt,     \* what the steps of the last purchaseTicket call did
    selLog,      \* the clicks of the selectSeats call that just ran
    pollCycles,  \* checkTicketAvailability calls so far
    selFails,    \* consecutive purchase attempts that failed in selectSeats
    hist,        \* what the run did so far: calls, their errors, polls that returned true
    cancelAt,    \* the phase the run was in when cancel() was called
    afterCancel, \* what the run began after cancel() was called
    cycle        \* the current loop iteration: what its poll's queries returned,
                 \* and the Browser methods it called

vars == <<site, prefs, pc, idx, sig, tick, available, outcome, attempt, selLog,
          pollCycles, selFails, hist, cancelAt, afterCancel, cycle>>

(***************************************************************************)
(* Bounds of the model.                                                    *)
(***************************************************************************)
MaxPrefs == 2
MaxCount == 5

Tags == {"VIP", "A"}
Sites == {"interpark", "yes24", "melon", "other"}

RECURSIVE SeqsUpTo(_, _)
SeqsUpTo(S, n) ==
    IF n = 0 THEN {<<>>}
    ELSE LET shorter == SeqsUpTo(S, n - 1)
         IN  shorter \cup {Append(s, x) : s \in {t \in shorter : Len(t) = n - 1}, x \in S}

Inc(n) == IF n < MaxCount THEN n + 1 ELSE n

(***************************************************************************)
(* Strings.                                                                *)
(***************************************************************************)
Quote == "'"

AvailabilitySelectors ==
    << <<".ticket-available">>,
       <<".btn-buy">>,
       <<"[data-status=", Quote, "available", Quote, "]">>,
       <<".seat-available">> >>

PurchaseSelectors ==
    << <<".btn-purchase">>,
       <<".btn-buy">>,
       <<"[data-action=", Quote, "purchase", Quote, "]">> >>

AnySeatSelector == <<".seat-available">>

PaymentSuccessSelector == <<".payment-success">>

\* fmt.Sprintf("[data-seat-type='%s']", preference)
SeatTypeSelector(preference) == <<"[data-seat-type=", Quote, preference, Quote, "]">>

\* fmt.Sprintf("document.querySelector('%s') !== null", selector)
ExistsScript(selector) ==
    <<"document.querySelector(", Quote>> \o selector \o <<Quote, ") !== null">>

\* The script is an expression only when the string literal that its first
\* quote opens is closed by the quote right before ") !== null": a literal
\* ends at the next quote, whatever the code meant that quote to be.
ScriptParses(script) ==
    LET later == {i \in 3..Len(script) : script[i] = Quote}
        close == CHOOSE i \in later : \A j \in later : i <= j
    IN  close = Len(script) - 1

PaymentChecks == 60

(***************************************************************************)
(* The page driver (Browser).  `page` and `click` are what the remote page *)
(* would answer; the context and the script decide what the call returns.  *)
(***************************************************************************)
PageAnswers == {"found", "absent", "error"}

\* ctx.Done() is closed: every chromedp.Run on a context derived from ctx fails.
CtxErr == sig = "cancelled"

\* Navigate, FillForm, SubmitForm: one chromedp.Run; TRUE when it returned an error.
RunFails(ok) == CtxErr \/ ~ok

\* Mutant: the query does not run on the caller's context.
ElementExistsIgnoringCtx(selector, page) ==
    IF ~ScriptParses(ExistsScript(selector)) \/ page = "error"
    THEN [exists |-> FALSE, err |-> TRUE]
    ELSE [exists |-> (page = "found"), err |-> FALSE]

ElementExists(selector, page) ==
    IF CtxErr \/ ~ScriptParses(ExistsScript(selector)) \/ page = "error"
    THEN [exists |-> FALSE, err |-> TRUE]
    ELSE [exists |-> (page = "found"), err |-> FALSE]

\* Mutant: the existence check and the click do not run on the caller's context.
ClickElementIgnoringCtx(selector, page, click) ==
    IF ~ScriptParses(ExistsScript(selector)) \/ page # "found" \/ ~click
    THEN [clicked |-> FALSE, err |-> TRUE]
    ELSE [clicked |-> TRUE, err |-> FALSE]

ClickElement(selector, page, click) ==
    LET e == ElementExists(selector, page)
    IN  IF e.err \/ ~e.exists THEN [clicked |-> FALSE, err |-> TRUE]
        ELSE IF CtxErr \/ ~click THEN [clicked |-> FALSE, err |-> TRUE]
        ELSE [clicked |-> TRUE, err |-> FALSE]

\* What the page holds, whatever the code manages to ask: the element is there
\* and a click on it goes through.
Clickable(page, click) == page = "found" /\ click

(***************************************************************************)
(* Phases of a run.                                                        *)
(***************************************************************************)
LoginPcs == {"start", "login_nav", "login_fill", "login_submit"}
NavPcs == {"nav", "nav_sleep"}
PollingPcs == {"select", "poll", "sel", "sel_fallback"}
MonitorPcs == PollingPcs \cup {"confirm", "pay_sleep", "pay"}

Phase(p) ==
    CASE p \in LoginPcs -> "LoggingIn"
      [] p \in NavPcs -> "Navigating"
      [] p \in PollingPcs -> "Polling"
      [] p = "confirm" -> "SeatSelected"
      [] p = "pay_sleep" -> "PurchaseConfirmed"
      [] p = "pay" -> "AwaitingPayment"
      [] OTHER -> "Terminal"

NoAttempt == [sel |-> "none", conf |-> "none", pay |-> "none"]
NoHistory == [logins |-> 0, loginErrs |-> 0, navs |-> 0, sawAvailable |-> FALSE,
              truePolls |-> 0, confirms |-> 0, payChecks |-> 0, paid |-> <<>>,
              variant |-> [fn |-> "none", urlOf |-> "none", fields |-> {}]]
NothingAfterCancel == [polls |-> 0, confirm |-> FALSE, pay |-> FALSE, payChecks |-> 0]
\* A count that only tells none, one and several apart.
Count2(n) == IF n < 2 THEN n + 1 ELSE n
NewCycle == [polled |-> <<>>, calls |-> {}]

\* What Start returns for each way it ends: the wrapped error of login or of
\* navigateToConcert, or what monitorTickets returns, nil from both its returns.
StartReturns(o) ==
    CASE o = "LoginFailed" -> "error: login failed"
      [] o = "NavigationFailed" -> "error: navigation failed"
      [] o \in {"Cancelled", "Success"} -> "nil"

\* Start's return value: nil from monitorTickets' two returns, an error otherwise.
Ret ==
    CASE outcome = "None" -> "running"
      [] outcome \in {"Cancelled", "Success"} -> "nil"
      [] OTHER -> "error"

\* Mutant: main ignores the error Start returns.
ExitStatusIgnoringError == IF outcome = "None" THEN -1 ELSE 0

\* The exit status of the process: log.Fatalf exits with status 1 when Start
\* returned an error, main returns (status 0) otherwise; -1 while it runs.
ExitStatus ==
    CASE Ret = "running" -> -1
      [] Ret = "nil" -> 0
      [] OTHER -> 1

Init ==
    /\ site \in Sites
    /\ prefs \in SeqsUpTo(Tags, MaxPrefs)
    /\ pc = "start"
    /\ idx = 0
    /\ sig = "none"
    /\ tick = FALSE
    /\ available = FALSE
    /\ outcome = "None"
    /\ attempt = NoAttempt
    /\ selLog = <<>>
    /\ pollCycles = 0
    /\ selFails = 0
    /\ hist = NoHistory
    /\ cancelAt = "none"
    /\ afterCancel = NothingAfterCancel
    /\ cycle = NewCycle

(***************************************************************************)
(* main: the signal goroutine.                                             *)
(***************************************************************************)
\* SIGINT/SIGTERM arrives in sigChan.
Signal ==
    /\ sig = "none"
    /\ pc # "done"
    /\ sig' = "pending"
    /\ UNCHANGED <<site, prefs, cycle, pc, idx, tick, available, outcome, attempt, selLog,
                   pollCycles, selFails, hist, cancelAt, afterCancel>>

\* The goroutine receives from sigChan and calls cancel().
HandleSignal ==
    /\ sig = "pending"
    /\ pc # "done"
    /\ sig' = "cancelled"
    /\ cancelAt' = Phase(pc)
    /\ UNCHANGED <<site, prefs, cycle, pc, idx, tick, available, outcome, attempt, selLog,
                   pollCycles, selFails, hist, afterCancel>>

(***************************************************************************)
(* The ticker of monitorTickets.  Time passes while the run is blocked: in *)
(* a sleep, in a driver call on a live context, or in the select with      *)
(* nothing ready.  A call on a cancelled context returns at once.          *)
(***************************************************************************)
TimePasses ==
    \/ pc \in {"pay_sleep", "pay"}
    \/ pc \in MonitorPcs /\ ~CtxErr

Tick ==
    /\ pc \in MonitorPcs
    /\ TimePasses
    /\ ~tick
    /\ tick' = TRUE
    /\ UNCHANGED <<site, prefs, cycle, pc, idx, sig, available, outcome, attempt, selLog,
                   pollCycles, selFails, hist, cancelAt, afterCancel>>

(***************************************************************************)
(* Start: login.                                                           *)
(***************************************************************************)
SupportedSites == {"interpark", "yes24", "melon"}

\* Mutant: every supported site logs in the Interpark way.
LoginVariantInterpark(s) ==
    [fn |-> "loginInterpark", urlOf |-> "interpark", fields |-> {"username", "password"}]

\* The function the switch of login calls for a site, the site whose LoginURL it
\* opens and the form fields it fills.
LoginVariant(s) ==
    CASE s = "interpark" ->
            [fn |-> "loginInterpark", urlOf |-> "interpark", fields |-> {"username", "password"}]
      [] s = "yes24" ->
            [fn |-> "loginYes24", urlOf |-> "yes24", fields |-> {"userId", "userPw"}]
      [] s = "melon" ->
            [fn |-> "loginMelon", urlOf |-> "melon", fields |-> {"id", "pw"}]

\* Mutant: a failed login step starts login again.
LoginRetried ==
    /\ pc' = "start"
    /\ outcome' = outcome

\* Start returns the error of a failed login step.
LoginFailed ==
    /\ pc' = "done"
    /\ outcome' = "LoginFailed"

\* login: the switch on DefaultSite.
Login ==
    /\ pc = "start"
    /\ IF site \in SupportedSites
       THEN /\ pc' = "login_nav"
            /\ hist' = [hist EXCEPT !.logins = Inc(@), !.variant = LoginVariant(site)]
            /\ outcome' = outcome
       ELSE /\ LoginFailed
            /\ hist' = hist
    /\ UNCHANGED <<site, prefs, cycle, idx, sig, tick, available, attempt, selLog,
                   pollCycles, selFails, cancelAt, afterCancel>>

\* One step of loginInterpark / loginYes24 / loginMelon: a driver call, and the
\* return of its error.
LoginStep(from, to) ==
    /\ pc = from
    /\ \E ok \in BOOLEAN :
          IF RunFails(ok)
          THEN /\ hist' = [hist EXCEPT !.loginErrs = Inc(@)]
               /\ LoginFailed
          ELSE /\ hist' = hist
               /\ pc' = to
               /\ outcome' = outcome
    /\ UNCHANGED <<site, prefs, cycle, idx, sig, tick, available, attempt, selLog, pollCycles,
                   selFails, cancelAt, afterCancel>>

LoginNavigate == LoginStep("login_nav", "login_fill")
LoginFillForm == LoginStep("login_fill", "login_submit")
LoginSubmitForm == LoginStep("login_submit", "nav")

(***************************************************************************)
(* Start: navigateToConcert.                                               *)
(***************************************************************************)
\* Mutant: a failed navigation starts the run again from login.
NavigationFailedRelogin ==
    /\ pc' = "start"
    /\ outcome' = outcome

\* Start returns the error of navigateToConcert.
NavigationFailed ==
    /\ pc' = "done"
    /\ outcome' = "NavigationFailed"

NavigateToConcert ==
    /\ pc = "nav"
    /\ hist' = [hist EXCEPT !.navs = Inc(@)]
    /\ \E ok \in BOOLEAN :
          IF RunFails(ok) THEN NavigationFailed
          ELSE pc' = "nav_sleep" /\ outcome' = outcome
    /\ UNCHANGED <<site, prefs, cycle, idx, sig, tick, available, attempt, selLog, pollCycles,
                   selFails, cancelAt, afterCancel>>

\* time.Sleep(2 * time.Second), then monitorTickets creates its ticker.
NavSettle ==
    /\ pc = "nav_sleep"
    /\ pc' = "select"
    /\ UNCHANGED <<site, prefs, cycle, idx, sig, tick, available, outcome, attempt, selLog,
                   pollCycles, selFails, hist, cancelAt, afterCancel>>

(***************************************************************************)
(* monitorTickets: the select loop.                                        *)
(***************************************************************************)
\* What the run began on a cancelled context.
NotePoll == IF CtxErr THEN [afterCancel EXCEPT !.polls = IF @ < 2 THEN @ + 1 ELSE @]
            ELSE afterCancel
NoteConfirm == IF CtxErr THEN [afterCancel EXCEPT !.confirm = TRUE] ELSE afterCancel
NotePay == IF CtxErr THEN [afterCancel EXCEPT !.pay = TRUE] ELSE afterCancel

\* Mutant: the case leaves the select with break, and the loop goes on.
MonitorDoneBreaksSelect ==
    /\ pc = "select"
    /\ CtxErr
    /\ pc' = "select"
    /\ outcome' = "Cancelled"
    /\ selLog' = <<>>
    /\ cycle' = [cycle EXCEPT !.polled = <<>>]
    /\ UNCHANGED <<site, prefs, idx, sig, tick, available, attempt, pollCycles,
                   selFails, hist, cancelAt, afterCancel>>

\* case <-ctx.Done(): return nil
MonitorDone ==
    /\ pc = "select"
    /\ CtxErr
    /\ pc' = "done"
    /\ outcome' = "Cancelled"
    /\ selLog' = <<>>
    /\ cycle' = [cycle EXCEPT !.polled = <<>>]
    /\ UNCHANGED <<site, prefs, idx, sig, tick, available, attempt, pollCycles,
                   selFails, hist, cancelAt, afterCancel>>

\* case <-ticker.C: the call of checkTicketAvailability
MonitorTick ==
    /\ pc = "select"
    /\ tick
    /\ tick' = FALSE
    /\ pc' = "poll"
    /\ idx' = 1
    /\ pollCycles' = Inc(pollCycles)
    /\ afterCancel' = NotePoll
    /\ selLog' = <<>>
    /\ cycle' = NewCycle
    /\ UNCHANGED <<site, prefs, sig, available, outcome, attempt, selFails,
                   hist, cancelAt>>

\* Mutant: purchaseTicket is called whatever the poll returned.
PurchaseWantedAlways(avail) == TRUE

\* Mutant: the condition is negated.
PurchaseWantedInverted(avail) == ~avail

\* `if available`: the cycle goes on to purchaseTicket.
PurchaseWanted(avail) == avail

\* `continue` after a failed purchaseTicket, and the end of an iteration that
\* found nothing: back to the select.
BackToSelect ==
    /\ pc' = "select"
    /\ idx' = 0
    /\ available' = FALSE

\* purchaseTicket is called: selectSeats starts with the first preference, or
\* with the generic seat when there is none.
BeginPurchase ==
    /\ attempt' = NoAttempt
    /\ IF Len(prefs) > 0 THEN pc' = "sel" /\ idx' = 1
       ELSE pc' = "sel_fallback" /\ idx' = 0

\* Mutant: a query that returned an error counts as a match.
IndicatorMatchesOnError(e) == e.err \/ e.exists

\* An indicator matched: it was found and its query returned no error.
IndicatorMatches(e) == ~e.err /\ e.exists

\* Mutant: the poll clicks the indicator it looks for.
IndicatorCallClicks == "ClickElement"

\* The Browser method checkTicketAvailability calls for each indicator.
IndicatorCall == "ElementExists"

\* checkTicketAvailability: one ElementExists of its loop; with the last one, or
\* the first match, its return and the `if available` of monitorTickets.
PollIndicator ==
    /\ pc = "poll"
    /\ \E page \in PageAnswers :
          LET e == ElementExists(AvailabilitySelectors[idx], page)
              returns == IndicatorMatches(e) \/ idx = Len(AvailabilitySelectors)
          IN  /\ hist' = [hist EXCEPT !.sawAvailable = @ \/ IndicatorMatches(e),
                                      !.truePolls = IF IndicatorMatches(e)
                                                    THEN Count2(@) ELSE @]
              /\ cycle' = [polled |-> Append(cycle.polled, e),
                           calls |-> cycle.calls \cup {IndicatorCall}]
              /\ IF ~returns
                 THEN /\ idx' = idx + 1
                      /\ UNCHANGED <<pc, available, attempt>>
                 ELSE IF PurchaseWanted(IndicatorMatches(e))
                 THEN /\ available' = IndicatorMatches(e)
                      /\ BeginPurchase
                 ELSE /\ BackToSelect
                      /\ attempt' = attempt
    /\ UNCHANGED <<site, prefs, sig, tick, outcome, selLog, pollCycles, selFails,
                   cancelAt, afterCancel>>

(***************************************************************************)
(* purchaseTicket: selectSeats.                                            *)
(***************************************************************************)
Clicked(r) == ~r.err /\ r.clicked

\* selectSeats returned nil: purchaseTicket calls confirmPurchase.
SeatSelected ==
    /\ attempt' = [attempt EXCEPT !.sel = "ok"]
    /\ selFails' = 0
    /\ pc' = "confirm"
    /\ idx' = 1
    /\ available' = available
    /\ outcome' = outcome

\* Mutant: the third selection failure in a row ends the run.
SeatSelectionFailedCapped ==
    /\ attempt' = [attempt EXCEPT !.sel = "failed"]
    /\ selFails' = Inc(selFails)
    /\ IF selFails >= 2
       THEN pc' = "done" /\ idx' = 0 /\ available' = FALSE /\ outcome' = "Exhausted"
       ELSE outcome' = outcome /\ BackToSelect

\* Mutant: purchaseTicket does not return selectSeats' error.
SeatSelectionFailureIgnored ==
    /\ attempt' = [attempt EXCEPT !.sel = "failed"]
    /\ selFails' = Inc(selFails)
    /\ outcome' = outcome
    /\ pc' = "confirm"
    /\ idx' = 1
    /\ available' = available

\* selectSeats returned its error: purchaseTicket returns it, monitorTickets logs
\* it and continues.
SeatSelectionFailed ==
    /\ attempt' = [attempt EXCEPT !.sel = "failed"]
    /\ selFails' = Inc(selFails)
    /\ outcome' = outcome
    /\ BackToSelect

\* One click of the loop over concert.PreferredSeats.
SelectPreferred ==
    /\ pc = "sel"
    /\ \E page \in PageAnswers, click \in BOOLEAN :
          LET r == ClickElement(SeatTypeSelector(prefs[idx]), page, click)
          IN  /\ selLog' = Append(selLog, [tag |-> prefs[idx],
                                           clickable |-> Clickable(page, click),
                                           clicked |-> Clicked(r)])
              /\ IF Clicked(r) THEN SeatSelected
                 ELSE /\ IF idx < Len(prefs) THEN pc' = "sel" /\ idx' = idx + 1
                         ELSE pc' = "sel_fallback" /\ idx' = 0
                      /\ UNCHANGED <<attempt, selFails, available, outcome>>
    /\ cycle' = [polled |-> <<>>, calls |-> cycle.calls \cup {"ClickElement"}]
    /\ UNCHANGED <<site, prefs, sig, tick, pollCycles, hist, cancelAt, afterCancel>>

\* The click on ".seat-available" after the loop.
SelectAnySeat ==
    /\ pc = "sel_fallback"
    /\ \E page \in PageAnswers, click \in BOOLEAN :
          LET r == ClickElement(AnySeatSelector, page, click)
          IN  /\ selLog' = Append(selLog, [tag |-> "any",
                                           clickable |-> Clickable(page, click),
                                           clicked |-> Clicked(r)])
              /\ IF r.err \/ ~r.clicked THEN SeatSelectionFailed ELSE SeatSelected
    /\ cycle' = [polled |-> <<>>, calls |-> cycle.calls \cup {"ClickElement"}]
    /\ UNCHANGED <<site, prefs, sig, tick, pollCycles, hist, cancelAt, afterCancel>>

(***************************************************************************)
(* purchaseTicket: confirmPurchase.                                        *)
(***************************************************************************)
\* confirmPurchase returned nil: purchaseTicket calls handlePayment.
PurchaseConfirmed ==
    /\ attempt' = [attempt EXCEPT !.conf = "ok"]
    /\ pc' = "pay_sleep"
    /\ idx' = 0
    /\ available' = available

\* Mutant: purchaseTicket does not return confirmPurchase's error.
ConfirmFailureIgnored ==
    /\ attempt' = [attempt EXCEPT !.conf = "failed"]
    /\ pc' = "pay_sleep"
    /\ idx' = 0
    /\ available' = available

\* confirmPurchase returned its error: purchaseTicket returns it, monitorTickets
\* logs it and continues.
ConfirmFailed ==
    /\ attempt' = [attempt EXCEPT !.conf = "failed"]
    /\ BackToSelect

\* One click of the loop over the purchase selectors.
ConfirmClick ==
    /\ pc = "confirm"
    /\ selLog' = <<>>
    /\ afterCancel' = IF idx = 1 THEN NoteConfirm ELSE afterCancel
    /\ \E page \in PageAnswers, click \in BOOLEAN :
          LET r == ClickElement(PurchaseSelectors[idx], page, click)
          IN  /\ hist' = [hist EXCEPT !.confirms = IF Clicked(r) THEN Count2(@) ELSE @]
              /\ IF Clicked(r) THEN PurchaseConfirmed
                 ELSE IF idx < Len(PurchaseSelectors)
                 THEN idx' = idx + 1 /\ UNCHANGED <<pc, attempt, available>>
                 ELSE ConfirmFailed
    /\ cycle' = [polled |-> <<>>, calls |-> cycle.calls \cup {"ClickElement"}]
    /\ UNCHANGED <<site, prefs, sig, tick, outcome, pollCycles, selFails, cancelAt>>

(***************************************************************************)
(* purchaseTicket: handlePayment.                                          *)
(***************************************************************************)
\* handlePayment is entered: time.Sleep(3 * time.Second).
PaySleep ==
    /\ pc = "pay_sleep"
    /\ attempt' = [attempt EXCEPT !.pay = "started"]
    /\ afterCancel' = NotePay
    /\ pc' = "pay"
    /\ idx' = 0
    /\ UNCHANGED <<site, prefs, cycle, sig, tick, available, outcome, selLog, pollCycles,
                   selFails, hist, cancelAt>>

\* handlePayment returned nil: purchaseTicket and monitorTickets return nil.
PaymentSucceeded ==
    /\ attempt' = [attempt EXCEPT !.pay = "ok"]
    /\ pc' = "done"
    /\ idx' = 0
    /\ outcome' = "Success"
    /\ available' = available

\* Mutant: after the 60th check the wait starts over.
PaymentWaitRestarts ==
    /\ attempt' = attempt
    /\ outcome' = outcome
    /\ pc' = "pay"
    /\ idx' = 0
    /\ available' = available

\* handlePayment returned the timeout error: purchaseTicket returns it,
\* monitorTickets logs it and continues.
PaymentTimedOut ==
    /\ attempt' = [attempt EXCEPT !.pay = "timeout"]
    /\ outcome' = outcome
    /\ BackToSelect

\* Mutant: a payment check that returned an error counts as payment.
PaymentObservedOnError(e) == e.err \/ e.exists

\* if err == nil && exists: the payment-success element was seen.
PaymentObserved(e) == ~e.err /\ e.exists

\* Mutant: a payment check that returned an error ends the wait.
PayCheckStopsOnError ==
    /\ pc = "pay"
    /\ afterCancel' = IF CtxErr THEN [afterCancel EXCEPT !.payChecks = Count2(@)]
                      ELSE afterCancel
    /\ \E page \in PageAnswers :
          LET e == ElementExists(PaymentSuccessSelector, page)
          IN  /\ hist' = [hist EXCEPT !.payChecks = idx + 1,
                                      !.paid = IF PaymentObserved(e) THEN <<e>> ELSE @]
              /\ IF PaymentObserved(e) THEN PaymentSucceeded
                 ELSE IF ~e.err /\ idx + 1 < PaymentChecks
                 THEN idx' = idx + 1 /\ UNCHANGED <<pc, attempt, outcome, available>>
                 ELSE PaymentTimedOut
    /\ cycle' = [cycle EXCEPT !.calls = @ \cup {"ElementExists"}]
    /\ UNCHANGED <<site, prefs, sig, tick, selLog, pollCycles, selFails, cancelAt>>

\* One iteration of the loop `for i := 0; i < 60; i++`: a second of sleep and
\* the query for ".payment-success".
PayCheck ==
    /\ pc = "pay"
    /\ afterCancel' = IF CtxErr THEN [afterCancel EXCEPT !.payChecks = Count2(@)]
                      ELSE afterCancel
    /\ \E page \in PageAnswers :
          LET e == ElementExists(PaymentSuccessSelector, page)
          IN  /\ hist' = [hist EXCEPT !.payChecks = idx + 1,
                                      !.paid = IF PaymentObserved(e) THEN <<e>> ELSE @]
              /\ IF PaymentObserved(e) THEN PaymentSucceeded
                 ELSE IF idx + 1 < PaymentChecks
                 THEN idx' = idx + 1 /\ UNCHANGED <<pc, attempt, outcome, available>>
                 ELSE PaymentTimedOut
    /\ cycle' = [cycle EXCEPT !.calls = @ \cup {"ElementExists"}]
    /\ UNCHANGED <<site, prefs, sig, tick, selLog, pollCycles, selFails, cancelAt>>

Next ==
    \/ Signal
    \/ HandleSignal
    \/ Tick
    \/ Login
    \/ LoginNavigate
    \/ LoginFillForm
    \/ LoginSubmitForm
    \/ NavigateToConcert
    \/ NavSettle
    \/ MonitorDone
    \/ MonitorTick
    \/ PollIndicator
    \/ SelectPreferred
    \/ SelectAnySeat
    \/ ConfirmClick
    \/ PaySleep
    \/ PayCheck

Spec == Init /\ [][Next]_vars

\* The steps of the run goroutine, which the Go scheduler keeps running; the
\* arrival of a signal and the ticker are not forced.
RunStep ==
    \/ Login
    \/ LoginNavigate
    \/ LoginFillForm
    \/ LoginSubmitForm
    \/ NavigateToConcert
    \/ NavSettle
    \/ MonitorDone
    \/ MonitorTick
    \/ PollIndicator
    \/ SelectPreferred
    \/ SelectAnySeat
    \/ ConfirmClick
    \/ PaySleep
    \/ PayCheck

FairSpec == Spec /\ WF_vars(RunStep)

TypeOK ==
    /\ site \in Sites
    /\ prefs \in SeqsUpTo(Tags, MaxPrefs)
    /\ pc \in LoginPcs \cup NavPcs \cup MonitorPcs \cup {"done"}
    /\ idx \in 0..PaymentChecks
    /\ sig \in {"none", "pending", "cancelled"}
    /\ tick \in BOOLEAN
    /\ available \in BOOLEAN
    /\ outcome \in {"None", "Cancelled", "Success", "LoginFailed", "NavigationFailed"}
    /\ pollCycles \in 0..MaxCount
    /\ selFails \in 0..MaxCount
    /\ (pc = "done") = (outcome # "None")

(***************************************************************************)
(* Properties.                                                             *)
(***************************************************************************)
PurchasePcs == {"sel", "sel_fallback", "confirm"}

\* C1: selectSeats and confirmPurchase run only in a loop iteration whose poll
\* returned true; a failed attempt leaves the iteration, so the next one needs a
\* new poll that returns true.
C1_PurchaseOnlyWhenAvailable ==
    /\ pc \in PurchasePcs => available /\ hist.sawAvailable
    /\ pc = "select" => ~available

\* An attempt in a later cycle, after one that failed in selectSeats.
C1_Witness ==
    pc \in PurchasePcs /\ available /\ pollCycles >= 2 /\ selFails >= 1 /\ sig = "none"

\* C2: a payment wait that times out ends the run, and nothing is polled after.
C2_PaymentTimeoutIsTerminal ==
    attempt.pay = "timeout" => pc = "done"

\* C3: cancel() called while the run is polling: at most the one poll cycle of an
\* already buffered tick begins after it, confirmPurchase is never entered after
\* it, and the run can only end Cancelled.
C3_CancelWhilePolling ==
    cancelAt = "Polling" =>
        /\ afterCancel.polls <= 1
        /\ ~afterCancel.confirm
        /\ ~afterCancel.pay
        /\ pc \in PollingPcs \cup {"done"}
        /\ pc = "done" => outcome = "Cancelled"
        /\ (pc = "select" /\ ~tick) => ENABLED MonitorDone

C3_Witness ==
    cancelAt = "Polling" /\ afterCancel.polls = 1 /\ pc = "done" /\ outcome = "Cancelled"

\* C4: when cancel() is called during a purchase attempt, before confirmPurchase
\* or before the payment wait, the run enters neither of them afterwards.
C4_NoPurchaseStepAfterCancel ==
    cancelAt \in {"Polling", "SeatSelected", "PurchaseConfirmed"} =>
        ~afterCancel.confirm /\ ~afterCancel.pay

\* C5: while no poll has returned true the run is polling: no step of
\* purchaseTicket runs, and the run ends only Cancelled.
C5_NeverAvailableStaysPolling ==
    ~hist.sawAvailable =>
        /\ pc \notin {"sel", "sel_fallback", "confirm", "pay_sleep", "pay"}
        /\ attempt = NoAttempt
        /\ outcome # "Success"
        /\ (pc = "done" /\ pollCycles > 0) => outcome = "Cancelled"

C5_Witness ==
    ~hist.sawAvailable /\ pollCycles >= 3 /\ pc = "select" /\ sig = "none"

\* C6: a login step that returns an error ends the run LoginFailed: login was
\* called once, and neither the concert page nor a poll nor a purchase followed.
C6_LoginFailureIsTerminal ==
    (hist.loginErrs > 0 \/ outcome = "LoginFailed") =>
        /\ pc = "done"
        /\ outcome = "LoginFailed"
        /\ hist.logins <= 1
        /\ hist.loginErrs <= 1
        /\ hist.loginErrs = 1 => hist.logins = 1
        /\ hist.navs = 0
        /\ pollCycles = 0
        /\ attempt = NoAttempt

C6_Witness ==
    hist.loginErrs = 1 /\ hist.logins = 1 /\ outcome = "LoginFailed" /\ sig = "none"

\* C7: the run ends NavigationFailed only after more than one Navigate to the
\* concert page.
C7_NavigationIsRetried ==
    outcome = "NavigationFailed" => hist.navs > 1

\* C8: after confirmPurchase failed the run is back in the select loop: no
\* payment wait for that attempt, no error returned, and what follows is the
\* select and the next poll.
C8_ConfirmFailureReturnsToPolling ==
    attempt.conf = "failed" =>
        /\ attempt.sel = "ok"
        /\ attempt.pay = "none"
        /\ pc \in {"select", "poll", "done"}
        /\ outcome \in {"None", "Cancelled"}

C8_Witness ==
    attempt.conf = "failed" /\ pc = "poll" /\ sig = "none"

\* C9: after selectSeats failed, however many times in a row, the run is back in
\* the select loop: confirmPurchase was not called in that attempt and the run
\* did not fail.
C9_SelectionFailureIsNotTerminal ==
    /\ attempt.sel = "failed" =>
          /\ attempt.conf = "none"
          /\ attempt.pay = "none"
          /\ pc \in {"select", "poll", "done"}
    /\ selFails > 0 => outcome \in {"None", "Cancelled"}

C9_Witness ==
    selFails >= 4 /\ attempt.sel = "failed" /\ pc = "select" /\ sig = "none"

\* C10: selectSeats clicks the preferred tags in order and stops at the first
\* clickable one; the generic seat is tried once, after every preferred tag
\* failed, and selectSeats fails only when that click fails too.
C10_PreferenceOrderHonoured ==
    sig = "none" =>
        /\ \A i \in 1..Len(selLog) :
              /\ i <= Len(prefs) => selLog[i].tag = prefs[i]
              /\ selLog[i].tag = "any" <=> i = Len(prefs) + 1
              /\ selLog[i].clicked = selLog[i].clickable
              /\ selLog[i].clicked => i = Len(selLog)
        /\ Len(selLog) <= Len(prefs) + 1

\* C11: checkTicketAvailability asks its indicators in order; it returns true at
\* the first one found by a query without error, and false when all four were
\* asked without such a match; a query's error only moves on to the next
\* indicator, and the run is never ended by a poll.
PollMatch(e) == ~e.err /\ e.exists

C11_PollScansIndicators ==
    LET log == cycle.polled
        n == Len(log)
    IN  /\ n <= Len(AvailabilitySelectors)
        /\ \A i \in 1..n : PollMatch(log[i]) => i = n
        /\ pc = "poll" => n = idx - 1 /\ \A i \in 1..n : ~PollMatch(log[i])
        /\ (n > 0 /\ pc # "poll") =>
              /\ pc \in {"sel", "sel_fallback", "select"}
              /\ outcome = "None"
              /\ available = (\E i \in 1..n : PollMatch(log[i]))
              /\ ~available => n = Len(AvailabilitySelectors)
              /\ available <=> pc \in {"sel", "sel_fallback"}

\* A poll whose first query returned an error and whose last indicator matched.
C11_Witness ==
    /\ pc \in {"sel", "sel_fallback"}
    /\ Len(cycle.polled) = Len(AvailabilitySelectors)
    /\ cycle.polled[1].err
    /\ available

\* C18: a poll calls nothing but ElementExists: while checkTicketAvailability
\* runs, and when it has returned false, the iteration has called no other
\* Browser method.
C18_PollOnlyQueries ==
    /\ (pc = "poll" /\ idx > 1) => cycle.calls = {"ElementExists"}
    /\ (pc = "select" /\ cycle.polled # <<>>) => cycle.calls = {"ElementExists"}

C18_Witness ==
    /\ pc = "select"
    /\ Len(cycle.polled) = Len(AvailabilitySelectors)
    /\ ~available
    /\ sig = "none"

\* C12: the value Start returns tells how the run ended: no other way of ending
\* returns the value this run returned.
Outcomes == {"Success", "Cancelled", "LoginFailed", "NavigationFailed"}

C12_ReturnTellsOutcome ==
    pc = "done" => \A o \in Outcomes \ {outcome} : StartReturns(o) # StartReturns(outcome)

\* C13: once Start has returned, nothing the run owns changes: not where it is,
\* not its outcome, and none of the records of its driver calls.
C13_TerminalIsSticky ==
    [][outcome # "None" =>
          UNCHANGED <<pc, idx, outcome, attempt, selLog, pollCycles, selFails, hist,
                      afterCancel, cycle, available>>]_vars

\* The run ended Success with a signal still waiting in sigChan.
C13_Witness == pc = "done" /\ outcome = "Success" /\ sig = "pending"

\* C14: a run that was logging in or navigating when cancel() was called ends
\* Cancelled and has not polled.
C14_CancelBeforePolling ==
    (pc = "done" /\ cancelAt \in {"LoggingIn", "Navigating"}) =>
        outcome = "Cancelled" /\ pollCycles = 0

\* C15: a run that was waiting for payment when cancel() was called runs at most
\* the payment check it was in, reports no payment timeout, and ends Cancelled.
C15_CancelWhileAwaitingPayment ==
    cancelAt = "AwaitingPayment" =>
        /\ afterCancel.payChecks <= 1
        /\ attempt.pay # "timeout"
        /\ pc = "done" => outcome = "Cancelled"

\* C16: in a run whose first three polls returned false and whose fourth
\* returned true, with a clickable seat of the preferred type, the one seat
\* selection clicks that seat, and the run, when it ends Success after two
\* payment checks, has polled four times and confirmed once.
C16_SuccessPath ==
    /\ (/\ prefs # <<>>
        /\ sig = "none"
        /\ pollCycles = 4
        /\ hist.truePolls = 1
        /\ selLog # <<>>
        /\ selLog[1].clickable) =>
            Len(selLog) = 1 /\ selLog[1].clicked /\ pc = "confirm"
    /\ (outcome = "Success" /\ hist.truePolls = 1 /\ hist.payChecks = 2) =>
            hist.confirms = 1

\* C17: a run ends Success only with a purchase attempt in which a seat was
\* selected, confirmPurchase succeeded, and a payment check that returned no
\* error found the payment-success element.
C17_SuccessNeedsObservedPayment ==
    outcome = "Success" =>
        /\ attempt = [sel |-> "ok", conf |-> "ok", pay |-> "ok"]
        /\ hist.confirms >= 1
        /\ hist.paid # <<>>
        /\ ~hist.paid[1].err /\ hist.paid[1].exists

C17_Witness == outcome = "Success" /\ hist.payChecks = 2 /\ pollCycles = 1

C20_AtMostOneConfirm == hist.confirms <= 1

\* C21: within one purchaseTicket call confirmPurchase is entered only after
\* selectSeats returned nil and handlePayment only after confirmPurchase returned
\* nil; a step that failed leaves the later steps of the call untouched.
C21_StepsOrderedAndGated ==
    /\ pc = "confirm" => attempt.sel = "ok" /\ attempt.conf = "none"
    /\ pc \in {"pay_sleep", "pay"} => attempt.sel = "ok" /\ attempt.conf = "ok"
    /\ attempt.conf # "none" => attempt.sel = "ok"
    /\ attempt.pay # "none" => attempt.conf = "ok"
    /\ attempt.sel = "failed" => pc \in {"select", "poll", "done"}
    /\ attempt.conf = "failed" => pc \in {"select", "poll", "done"}

\* selectSeats succeeded, confirmPurchase failed, handlePayment was not called.
C21_Witness ==
    pc = "select" /\ attempt = [sel |-> "ok", conf |-> "failed", pay |-> "none"]

\* C22: a run logs in at most once and opens the concert page at most once; it
\* opens the concert page only after a login without error, polls only after
\* the concert page was opened without error, and is past both while it is in
\* monitorTickets.
C22_PrePollingOnceInOrder ==
    /\ hist.logins <= 1
    /\ hist.navs <= 1
    /\ (pc \in NavPcs \/ hist.navs = 1) => hist.logins = 1 /\ hist.loginErrs = 0
    /\ (pc \in MonitorPcs \/ pollCycles >= 1) =>
          /\ hist.logins = 1 /\ hist.loginErrs = 0 /\ hist.navs = 1
          /\ outcome \notin {"LoginFailed", "NavigationFailed"}
    /\ outcome = "NavigationFailed" => pollCycles = 0

C22_Witness ==
    pc = "poll" /\ pollCycles = 3 /\ hist.logins = 1 /\ hist.navs = 1

\* C23: one handlePayment call makes at most 60 checks; it returns nil at the
\* first check that found the payment-success element without error, and the
\* timeout error only after the 60th check; no check ends the wait otherwise.
C23_PaymentWaitBounded ==
    /\ hist.payChecks <= PaymentChecks
    /\ pc = "pay" => idx < PaymentChecks /\ attempt.pay = "started"
    /\ attempt.pay = "timeout" => hist.payChecks = PaymentChecks
    /\ attempt.pay = "ok" =>
          /\ hist.payChecks \in 1..PaymentChecks
          /\ hist.paid # <<>> /\ ~hist.paid[1].err /\ hist.paid[1].exists
    /\ attempt.pay = "started" => pc \in {"pay"}

\* All 60 checks ran, those after cancel() with an error each, before the timeout.
C23_Witness ==
    /\ attempt.pay = "timeout"
    /\ hist.payChecks = PaymentChecks
    /\ cancelAt = "AwaitingPayment"

\* C25: a poll cycle that began after cancel() was called is the only such cycle;
\* each of its queries returned an error, it returned false, and the run goes
\* from it to the select and ends Cancelled, without seat selection.
C25_PollAfterCancelFindsNothing ==
    afterCancel.polls >= 1 =>
        /\ afterCancel.polls = 1
        /\ pc \in {"poll", "select", "done"}
        /\ ~available
        /\ \A i \in 1..Len(cycle.polled) : cycle.polled[i].err
        /\ pc = "done" => outcome = "Cancelled"

\* The buffered tick won the select against ctx.Done(), and its poll returned.
C25_Witness ==
    /\ afterCancel.polls = 1
    /\ pc = "select"
    /\ Len(cycle.polled) = Len(AvailabilitySelectors)

\* C26: login calls the function of the configured site when it is one of the
\* three supported ones; for any other site it returns its error with no
\* Browser call made, and the run ends before navigation and polling.
C26_LoginVariantBySite ==
    /\ (site \in SupportedSites /\ pc # "start") =>
          /\ hist.logins = 1
          /\ hist.variant.urlOf = site
          /\ hist.variant.fn # "none"
    /\ site \notin SupportedSites =>
          /\ pc \in {"start", "done"}
          /\ pc = "done" => outcome = "LoginFailed"
          /\ hist = NoHistory
          /\ pollCycles = 0
          /\ cycle = NewCycle

\* The run of an unsupported site has ended, with nothing done.
C26_Witness == site = "other" /\ pc = "done" /\ outcome = "LoginFailed"

\* C24: under FairSpec a run returns from Start after cancel() was called, in
\* whichever phase that was and whatever the driver answers afterwards.
C24_CancelledRunReturns == (sig = "cancelled") ~> (pc = "done")

\* cancel() came during the payment wait, whose remaining checks all failed,
\* and the run has returned.
C24_Witness ==
    /\ sig = "cancelled"
    /\ cancelAt = "AwaitingPayment"
    /\ afterCancel.payChecks = 2
    /\ pc = "done"
====
